---- MODULE Spec2Model ----
(***************************************************************************)
(* Model of the Wan2.2 prompt preset generator (nodes.py, utils.py).       *)
(*                                                                         *)
(* Python strings are TLA+ strings (Len, SubSeq and \o act on them         *)
(* character by character).  The typographic apostrophe U+2019 used by     *)
(* nodes.py is written ' here, because a TLA+ string is ASCII.             *)
(* A Python dict is a sequence of items in insertion order with distinct   *)
(* keys.  A Python value that may be a string, None, an int or a missing   *)
(* dict field is a record [t, s].                                          *)
(***************************************************************************)
EXTENDS Integers, Sequences, FiniteSets, TLC

VARIABLES templates, pc, args, result, sel, presets, resolved,
          seen, files, loaded, kwargs

vars == <<templates, pc, args, result, sel, presets, resolved,
          seen, files, loaded, kwargs>>

(***************************************************************************)
(* Bounds                                                                  *)
(***************************************************************************)
\* the largest number of presets in a collection handed to resolve_preset_id
MaxKeys == 2

\* the largest number of calls followed after the one that is remembered
MaxCalls == 2

(***************************************************************************)
(* Python values                                                           *)
(***************************************************************************)
Str(x) == [t |-> "str", s |-> x]
None == [t |-> "None", s |-> ""]
Absent == [t |-> "absent", s |-> ""]
IntV(x) == [t |-> "int", s |-> x]

IsStr(v) == v.t = "str"

\* f"{v}" / str(v)
Format(v) == IF v.t = "None" THEN "None" ELSE v.s

\* bool(v): None, "", 0 and a missing field read with default "" are falsy
Truthy(v) ==
    CASE v.t = "str" -> v.s # ""
      [] v.t = "int" -> v.s # "0"
      [] OTHER -> FALSE

(***************************************************************************)
(* Python string methods                                                   *)
(***************************************************************************)
Digits == <<"0", "1", "2", "3", "4", "5", "6", "7", "8", "9">>

Char(s, i) == SubSeq(s, i, i)

From(s, i) == IF i > Len(s) THEN "" ELSE SubSeq(s, i, Len(s))

\* s.startswith(p)
StartsWith(s, p) == Len(p) <= Len(s) /\ SubSeq(s, 1, Len(p)) = p

\* the positions from i on at which sub occurs in s
Occurrences(s, sub, i) ==
    {j \in i..(Len(s) - Len(sub) + 1) : SubSeq(s, j, j + Len(sub) - 1) = sub}

\* s.find(sub, i), 1-based, 0 when absent
FindFrom(s, sub, i) ==
    LET hits == Occurrences(s, sub, i)
    IN  IF hits = {} THEN 0 ELSE CHOOSE j \in hits : \A k \in hits : j <= k

\* sub in s
Contains(s, sub) == FindFrom(s, sub, 1) > 0

\* s.replace(old, new): every non-overlapping occurrence, left to right;
\* the inserted text is not scanned again
RECURSIVE ReplaceFrom(_, _, _, _)
ReplaceFrom(s, old, new, i) ==
    LET j == FindFrom(s, old, i)
    IN  IF j = 0 THEN From(s, i)
        ELSE SubSeq(s, i, j - 1) \o new \o ReplaceFrom(s, old, new, j + Len(old))

Replace(s, old, new) == ReplaceFrom(s, old, new, 1)

\* s.strip()
RECURSIVE LStrip(_)
LStrip(s) == IF Len(s) > 0 /\ Char(s, 1) = " " THEN LStrip(From(s, 2)) ELSE s

RECURSIVE RStrip(_)
RStrip(s) ==
    IF Len(s) > 0 /\ Char(s, Len(s)) = " " THEN RStrip(SubSeq(s, 1, Len(s) - 1)) ELSE s

Strip(s) == RStrip(LStrip(s))

\* s.split(" - ", 1)[0]
SplitHead(s) == SubSeq(s, 1, FindFrom(s, " - ", 1) - 1)

IsDigitChar(c) == \E d \in 1..10 : Digits[d] = c

\* s.isdigit()
IsDigit(s) == Len(s) > 0 /\ \A i \in 1..Len(s) : IsDigitChar(Char(s, i))

DigitVal(c) == (CHOOSE d \in 1..10 : Digits[d] = c) - 1

\* int(s) for a string of decimal digits
RECURSIVE ToInt(_)
ToInt(s) ==
    IF Len(s) = 0 THEN 0
    ELSE 10 * ToInt(SubSeq(s, 1, Len(s) - 1)) + DigitVal(Char(s, Len(s)))

\* " ".join(parts)
RECURSIVE Join(_)
Join(parts) ==
    IF Len(parts) = 0 THEN ""
    ELSE IF Len(parts) = 1 THEN parts[1]
    ELSE parts[1] \o " " \o Join(Tail(parts))

(***************************************************************************)
(* Python dicts                                                            *)
(***************************************************************************)
Keys(d) == [i \in 1..Len(d) |-> d[i].k]

KeySet(d) == {d[i].k : i \in 1..Len(d)}

HasKey(d, key) == \E i \in 1..Len(d) : d[i].k = key

Item(d, key) == d[CHOOSE i \in 1..Len(d) : d[i].k = key]

\* repr(list(d.keys())) for keys without quotes or backslashes
RECURSIVE ReprTail(_)
ReprTail(ks) ==
    IF Len(ks) = 0 THEN ""
    ELSE ", '" \o ks[1] \o "'" \o ReprTail(Tail(ks))

ReprList(ks) ==
    IF Len(ks) = 0 THEN "[]"
    ELSE "['" \o ks[1] \o "'" \o ReprTail(Tail(ks)) \o "]"

(***************************************************************************)
(* resolve_preset_id                                                       *)
(***************************************************************************)
\* sort key of the fallback: int(x) if str(x).isdigit() else 999
Sentinel == 999

SortKey(x) == IF IsDigit(x) THEN ToInt(x) ELSE Sentinel

\* sorted(available_keys, key=...)[0]: sorted is stable, so the first key in
\* insertion order among those of least sort key
FallbackKey(d) ==
    LET i == CHOOSE i \in 1..Len(d) :
                /\ \A j \in 1..Len(d) : SortKey(d[i].k) <= SortKey(d[j].k)
                /\ \A j \in 1..(i - 1) : SortKey(d[j].k) > SortKey(d[i].k)
    IN  d[i].k

\* for k, v in presets.items(): if isinstance(v, dict) and v.get("name") == selection
NameMatches(d, s) == {i \in 1..Len(d) : d[i].dict /\ d[i].name = Str(s)}

FirstNameMatch(d, s) ==
    LET i == CHOOSE i \in NameMatches(d, s) : \A j \in NameMatches(d, s) : i <= j
    IN  d[i].k

\* resolve_preset_id with the reverse lookup by name tried before the
\* 'Number - Name' rule
resolve_preset_id_NameFirst(selection, d) ==
    IF Len(d) = 0 THEN [key |-> "1", rule |-> 0]
    ELSE IF IsStr(selection) /\ HasKey(d, selection.s)
        THEN [key |-> selection.s, rule |-> 1]
    ELSE IF ~IsStr(selection)
        THEN [key |-> "1", rule |-> 7]
    ELSE IF NameMatches(d, selection.s) # {}
        THEN [key |-> FirstNameMatch(d, selection.s), rule |-> 4]
    ELSE IF Contains(selection.s, " - ") /\ HasKey(d, Strip(SplitHead(selection.s)))
        THEN [key |-> Strip(SplitHead(selection.s)), rule |-> 2]
    ELSE [key |-> FallbackKey(d), rule |-> 5]

\* resolve_preset_id with the 'Number - Name' rule tried before the direct
\* key match
resolve_preset_id_PrefixFirst(selection, d) ==
    IF Len(d) = 0 THEN [key |-> "1", rule |-> 0]
    ELSE IF ~IsStr(selection)
        THEN [key |-> "1", rule |-> 7]
    ELSE IF Contains(selection.s, " - ") /\ HasKey(d, Strip(SplitHead(selection.s)))
        THEN [key |-> Strip(SplitHead(selection.s)), rule |-> 2]
    ELSE IF HasKey(d, selection.s)
        THEN [key |-> selection.s, rule |-> 1]
    ELSE IF NameMatches(d, selection.s) # {}
        THEN [key |-> FirstNameMatch(d, selection.s), rule |-> 4]
    ELSE [key |-> FallbackKey(d), rule |-> 5]

\* The result carries the number of the return statement taken:
\* 0 empty collection, 1 direct key, 2 'Number - Name', 3 number only,
\* 4 reverse lookup by name, 5 fallback, 7 exception handler.
resolve_preset_id(selection, d) ==
    IF Len(d) = 0 THEN [key |-> "1", rule |-> 0]
    ELSE IF IsStr(selection) /\ HasKey(d, selection.s)
        THEN [key |-> selection.s, rule |-> 1]
    ELSE IF ~IsStr(selection)
        \* " - " in selection raises TypeError; except: return "1"
        THEN [key |-> "1", rule |-> 7]
    ELSE IF Contains(selection.s, " - ") /\ HasKey(d, Strip(SplitHead(selection.s)))
        THEN [key |-> Strip(SplitHead(selection.s)), rule |-> 2]
    ELSE IF IsDigit(selection.s) /\ HasKey(d, selection.s)
        THEN [key |-> selection.s, rule |-> 3]
    ELSE IF NameMatches(d, selection.s) # {}
        THEN [key |-> FirstNameMatch(d, selection.s), rule |-> 4]
    ELSE [key |-> FallbackKey(d), rule |-> 5]

(***************************************************************************)
(* ErrorHandler.validate_inputs                                            *)
(***************************************************************************)
\* InputError with the test for an empty string made without strip()
InputError_NoStrip(key, value) ==
    IF value.t = "None" THEN "Parameter " \o key \o " cannot be None"
    ELSE IF IsStr(value) /\ value.s = ""
        THEN "Parameter " \o key \o " cannot be an empty string"
    ELSE ""

\* the entry of errors contributed by one keyword argument ("" when none)
InputError(key, value) ==
    IF value.t = "None" THEN "Parameter " \o key \o " cannot be None"
    ELSE IF IsStr(value) /\ Strip(value.s) = ""
        THEN "Parameter " \o key \o " cannot be an empty string"
    ELSE ""

\* the message of the ValueError raised, "" when validate_inputs returns True
validate_inputs(subject_type, custom_subject) ==
    LET e1 == InputError("subject_type", subject_type)
        e2 == InputError("custom_subject", custom_subject)
    IN  IF e1 # "" /\ e2 # "" THEN e1 \o "; " \o e2
        ELSE e1 \o e2

(***************************************************************************)
(* generate_preset_prompt: subject substitution and prefix removal         *)
(***************************************************************************)
CharacterSubstitute(template, cs) ==
    LET t1 == Replace(template, "girl", cs)
        t2 == Replace(t1, "she", cs)
        t3 == Replace(t2, "her", cs \o "'s")
        t4 == Replace(t3, "character", cs)
        t5 == Replace(t4, "subject", cs)
        t6 == Replace(t5, "subject's back", cs \o " back")
    IN  Replace(t6, "subject's", cs \o "'s")

\* ObjectSubstitute without its first replacement
ObjectSubstitute_NoSubject(template, cs) ==
    LET t2 == Replace(template, "subject's back", cs \o " back")
    IN  Replace(t2, "subject's", cs \o "'s")

ObjectSubstitute(template, cs) ==
    LET t1 == Replace(template, "subject", cs)
        t2 == Replace(t1, "subject's back", cs \o " back")
    IN  Replace(t2, "subject's", cs \o "'s")

CharacterPrefixes(cs) == <<
    cs \o " stands in the center of the frame, body naturally upright, arms down, expression calm, gazing straight ahead.",
    cs \o " stands in the center of the frame, body remains still, expression calm.",
    cs \o " stands naturally, facing the camera, arms down, hair clinging to her cheeks.",
    cs \o " is located in the center of the frame, expression determined, gazing straight ahead.",
    cs \o " stands in the center of the frame, body naturally upright, hair hanging down, expression calm.",
    cs \o " stands in the center of the frame, expression calm,",
    cs \o " stands in the center of the frame, arms naturally down, expression calm.",
    cs \o " stands in the center of the frame,",
    cs \o " stands facing the camera, expression calm.",
    cs \o " stands still in the center of the frame, expression determined.",
    cs \o " stands still,",
    cs \o " stands in the center of the frame, the camera is close to the front of " \o cs \o ".",
    cs \o " slowly walks toward the camera," >>

ObjectPrefixes(cs) == <<
    cs \o " is located in the center of the frame, with a complete and clear structure, and a stable base touching the ground.",
    cs \o " is located in the center of the frame, with the whole object visible.",
    cs \o " is located in the center of the frame," >>

\* for prefix in prefixes_to_remove: if startswith: cut, strip, break
RECURSIVE RemovePrefix(_, _)
RemovePrefix(s, prefixes) ==
    IF Len(prefixes) = 0 THEN s
    ELSE IF StartsWith(s, Head(prefixes)) THEN Strip(From(s, Len(Head(prefixes)) + 1))
    ELSE RemovePrefix(s, Tail(prefixes))

CameraClause(subject_type, template, cs) ==
    IF subject_type = Str("Character")
    THEN RemovePrefix(CharacterSubstitute(template, cs), CharacterPrefixes(cs))
    ELSE RemovePrefix(ObjectSubstitute(template, cs), ObjectPrefixes(cs))

CharacterSubject(cs) ==
    cs \o " stands in the center of the frame, body naturally upright, expression calm, gazing straight ahead."

ObjectSubject(cs) ==
    cs \o " is located in the center of the frame, with a complete and clear structure, and a stable base touching the ground."

(***************************************************************************)
(* generate_preset_prompt                                                  *)
(***************************************************************************)
NoLighting == Str("No Lighting Effect")
NoAction == Str("No Specific Action")
NoEmotion == Str("No Specific Emotion")

DefaultCharacterCamera == Str("1 - Fixed Composition")
DefaultObjectCamera == Str("1 - Rotate in place (Camera surrounding)")

\* key in d, for a key that may not be a string
In(v, d) == IsStr(v) /\ HasKey(d, v.s)

\* d[key].get("description", "")
Description(d, key) ==
    IF Item(d, key).description.t = "absent" THEN Str("") ELSE Item(d, key).description

\* step 2: the clauses appended for the emotional expression (none or one)
EmotionParts(T, emotional_expression) ==
    IF emotional_expression = NoEmotion THEN << >>
    ELSE IF In(emotional_expression, T.emoLib)
        THEN IF Truthy(Description(T.emoLib, emotional_expression.s))
             THEN << Description(T.emoLib, emotional_expression.s) >> ELSE << >>
    ELSE IF In(emotional_expression, T.emoFlat)
        THEN IF Truthy(Description(T.emoFlat, emotional_expression.s))
             THEN << Description(T.emoFlat, emotional_expression.s) >> ELSE << >>
    ELSE << >>

\* action['description'] or the KeyError
ActionHit(action) ==
    IF action.description.t = "absent" THEN [exc |-> "'description'", val |-> None]
    ELSE [exc |-> "", val |-> action.description]

\* the loop over character_action_presets.items(), from item i on:
\* exc is the message of the exception raised, val is action_description
RECURSIVE ActionScan(_, _, _)
ActionScan(d, character_action, i) ==
    IF i > Len(d) THEN [exc |-> "", val |-> None]
    ELSE IF d[i].name.t = "absent" THEN [exc |-> "'name'", val |-> None]
    ELSE IF character_action = Str(d[i].k \o " - " \o Format(d[i].name)) THEN ActionHit(d[i])
    ELSE IF character_action = d[i].name THEN ActionHit(d[i])
    ELSE IF character_action = Str(d[i].k) THEN ActionHit(d[i])
    ELSE IF ~IsStr(character_action)
        THEN [exc |-> "'" \o (IF character_action.t = "None" THEN "NoneType" ELSE "int")
                          \o "' object has no attribute 'startswith'", val |-> None]
    ELSE IF StartsWith(character_action.s, d[i].k \o " - ") THEN ActionHit(d[i])
    ELSE ActionScan(d, character_action, i + 1)

\* step 3: exc, or the clauses appended for the character action
ActionParts(T, character_action) ==
    IF character_action = NoAction THEN [exc |-> "", parts |-> << >>]
    ELSE IF In(character_action, T.actLib)
        THEN [exc |-> "",
              parts |-> IF Truthy(Description(T.actLib, character_action.s))
                        THEN << Description(T.actLib, character_action.s) >> ELSE << >>]
    ELSE LET r == ActionScan(T.actRaw, character_action, 1)
         IN  [exc |-> r.exc, parts |-> IF r.exc = "" /\ Truthy(r.val) THEN << r.val >> ELSE << >>]

\* LightingParts without the test against "No Lighting Effect"
LightingParts_NoSentinel(T, lighting_type) ==
    IF In(lighting_type, T.lighting)
    THEN << Item(T.lighting, lighting_type.s).text >>
    ELSE << >>

\* LightingParts appending the selected label instead of the text it keys
LightingParts_Label(T, lighting_type) ==
    IF lighting_type # NoLighting /\ In(lighting_type, T.lighting)
    THEN << lighting_type >>
    ELSE << >>

\* step 5: the clauses appended for the lighting effect
LightingParts(T, lighting_type) ==
    IF lighting_type # NoLighting /\ In(lighting_type, T.lighting)
    THEN << Item(T.lighting, lighting_type.s).text >>
    ELSE << >>

NonStr(parts) == {i \in 1..Len(parts) : ~IsStr(parts[i])}

FirstNonStr(parts) == CHOOSE i \in NonStr(parts) : \A j \in NonStr(parts) : i <= j

TypeName(v) == IF v.t = "None" THEN "NoneType" ELSE v.t

\* " ".join(prompt_parts): exc for the first item that is not a string
JoinParts(parts) ==
    IF NonStr(parts) # {}
    THEN [exc |-> "sequence item " \o ToString(FirstNonStr(parts) - 1)
                  \o ": expected str instance, " \o TypeName(parts[FirstNonStr(parts)])
                  \o " found",
          val |-> ""]
    ELSE [exc |-> "", val |-> Join([i \in 1..Len(parts) |-> parts[i].s])]

\* The locals a call leaves behind: whether resolve_preset_id was reached,
\* its result, the keys of the selected collection, camera_template, and
\* prompt_parts with camera_description once they are built.
NoLocals ==
    [reached |-> FALSE, preset_number |-> "", keys |-> << >>, camera_template |-> Absent,
     built |-> FALSE, camera_description |-> "", prompt_parts |-> << >>]

Outcome(kind, val, loc) == [kind |-> kind, val |-> val, loc |-> loc]

\* TemplateMissing as "camera_template is None"
TemplateMissing_IsNone(camera_template) == camera_template.t = "None"

\* if not camera_template
TemplateMissing(camera_template) == ~Truthy(camera_template)

\* the string returned when the template is missing
TemplateNotFound(preset_number, camera_presets) ==
    "Error: Template for camera type " \o preset_number
        \o " not found. Available presets: " \o ReprList(Keys(camera_presets))

\* GivenCamera as "character_camera_type or object_camera_type" for both
\* subject types
GivenCamera_Either(a) ==
    IF Truthy(a.character_camera_type) THEN a.character_camera_type
    ELSE a.object_camera_type

\* the camera argument read for the subject type: character_camera_type for
\* "Character", object_camera_type otherwise
GivenCamera(a) ==
    IF a.subject_type = Str("Character") THEN a.character_camera_type
    ELSE a.object_camera_type

\* the try block of generate_preset_prompt: it returns a string or raises
GenerateBody(T, a) ==
    LET invalid == validate_inputs(a.subject_type, a.custom_subject)
        isCharacter == a.subject_type = Str("Character")
        given == GivenCamera(a)
        camera_type ==
            IF Truthy(given) THEN given
            ELSE IF isCharacter THEN DefaultCharacterCamera ELSE DefaultObjectCamera
        section == IF isCharacter THEN T.charCam ELSE T.objCam
        camera_presets == section.items
        preset_number == resolve_preset_id(camera_type, camera_presets).key
        found == HasKey(camera_presets, preset_number)
        camera_template ==
            IF found /\ Item(camera_presets, preset_number).template.t # "absent"
            THEN Item(camera_presets, preset_number).template
            ELSE Str("")
        loc1 == [NoLocals EXCEPT !.reached = TRUE, !.preset_number = preset_number,
                                 !.keys = Keys(camera_presets),
                                 !.camera_template = camera_template]
        subject_description ==
            IF isCharacter THEN CharacterSubject(Format(a.custom_subject))
            ELSE ObjectSubject(Format(a.custom_subject))
        emotion == EmotionParts(T, a.emotional_expression)
        action == ActionParts(T, a.character_action)
        camera_description == CameraClause(a.subject_type, camera_template.s, a.custom_subject.s)
        prompt_parts ==
            << Str(subject_description) >> \o emotion \o action.parts
                \o << Str(camera_description) >> \o LightingParts(T, a.lighting_type)
        loc2 == [loc1 EXCEPT !.built = TRUE, !.camera_description = camera_description,
                             !.prompt_parts = prompt_parts]
        final_prompt == JoinParts(prompt_parts)
    IN  IF invalid # "" THEN Outcome("raise", invalid, NoLocals)
        ELSE IF section.t = "None"
            THEN Outcome("raise", "'NoneType' object has no attribute 'get'", NoLocals)
        ELSE IF found /\ ~Item(camera_presets, preset_number).dict
            THEN Outcome("raise", "'str' object has no attribute 'get'",
                         [loc1 EXCEPT !.camera_template = Absent])
        ELSE IF camera_template.t = "int" /\ Truthy(camera_template)
            THEN Outcome("raise", "'int' object is not subscriptable", loc1)
        ELSE IF TemplateMissing(camera_template)
            THEN Outcome("return", TemplateNotFound(preset_number, camera_presets), loc1)
        ELSE IF action.exc # "" THEN Outcome("raise", action.exc, loc1)
        ELSE IF ~IsStr(a.custom_subject)
            THEN Outcome("raise", "replace() argument 2 must be str, not int", loc1)
        ELSE IF final_prompt.exc # "" THEN Outcome("raise", final_prompt.exc, loc2)
        ELSE Outcome("return", final_prompt.val, loc2)

\* generate_preset_prompt without the except clause
generate_preset_prompt_NoExcept(T, a) == GenerateBody(T, a)

\* try: ... except Exception as e: return (f"Error: {error_msg}",)
generate_preset_prompt(T, a) ==
    LET r == GenerateBody(T, a)
    IN  IF r.kind = "raise"
        THEN Outcome("return",
                     "Error: An error occurred while generating the WAN2.2 prompt: " \o r.val,
                     r.loc)
        ELSE r

\* the wrapper of @log_function_call: return result, or log and raise again
log_function_call(r) ==
    IF r.kind = "raise" THEN Outcome("raise", r.val, r.loc)
    ELSE Outcome("return", r.val, r.loc)

(***************************************************************************)
(* Inputs                                                                  *)
(***************************************************************************)
Preset(k, name, template) == [k |-> k, dict |-> TRUE, name |-> name, template |-> template]

\* an item whose value is a string instead of a dict
Scalar(k) == [k |-> k, dict |-> FALSE, name |-> Absent, template |-> Absent]

Described(k, description) == [k |-> k, description |-> description]

Action(k, name, description) == [k |-> k, name |-> name, description |-> description]

Effect(k, text) == [k |-> k, text |-> text]

Dict(items) == [t |-> "dict", items |-> items]

\* the section, or its "presets" member, is missing: .get(..., {})
NoSection == [t |-> "absent", items |-> << >>]

\* the section is null in the file
NullSection == [t |-> "None", items |-> << >>]

ObjectBoilerplate ==
    "is located in the center of the frame, with a complete and clear structure, and a stable base touching the ground."

CharacterCameraPresets == Dict(<<
    Preset("1", Str("Fixed Composition"),
           Str("girl stands in the center of the frame, she smiles. The camera holds on her face.")),
    Preset("2", Str("Orbit"), Str("The camera orbits the character.")),
    Preset("3", Str("Still"), Str("girl stands still,")),
    Preset("4", Str("Untitled"), Absent) >>)

ObjectCameraPresets == Dict(<<
    Preset("1", Str("Rotate in place (Camera surrounding)"),
           Str("Subject " \o ObjectBoilerplate \o " The camera slowly orbits the subject.")),
    Preset("2", Str("Orbit"),
           Str("subject " \o ObjectBoilerplate \o " The camera slowly orbits the subject.")),
    Preset("3", Str("Centered"), Str("subject is located in the center of the frame,")),
    Preset("4", Str("Blank"), Str("")) >>)

\* a collection without the key "1", with an item that is not a dict, a
\* template that is a number and one that is null
OddCameraPresets == Dict(<<
    Scalar("text"),
    Preset("7", Str("Seven"), IntV("7")),
    Preset("8", Absent, None),
    Preset("1000", Str("Far"), Str("The camera pulls away from the subject.")) >>)

FullTable ==
    [charCam |-> CharacterCameraPresets,
     objCam |-> ObjectCameraPresets,
     emoLib |-> << Described("Happy", Str("Smiling brightly.")),
                   Described("No Specific Emotion", Str("Blank face.")) >>,
     emoFlat |-> << Described("Happy", Str("Grinning.")),
                    Described("Sad", Str("Looking sad.")) >>,
     actLib |-> << Described("1 - Wave", Str("Waving a hand.")),
                   Described("No Specific Action", Str("Standing idle.")) >>,
     actRaw |-> << Action("1", Str("Wave"), Str("Waving both hands.")),
                   Action("2", Str("Jump"), Str("Jumping up.")) >>,
     lighting |-> << Effect("Soft Natural Light", Str("Soft light falls on the subject.")),
                     Effect("No Lighting Effect", Str("Darkness.")),
                     Effect("Blank", Str("")) >>]

\* get_default_templates(): none of the sections generate_preset_prompt reads
DefaultTable ==
    [charCam |-> NoSection, objCam |-> NoSection, emoLib |-> << >>, emoFlat |-> << >>,
     actLib |-> << >>, actRaw |-> << >>, lighting |-> << >>]

OddTable ==
    [charCam |-> NullSection,
     objCam |-> OddCameraPresets,
     emoLib |-> << Described("Happy", Absent) >>,
     emoFlat |-> << Described("Sad", IntV("3")) >>,
     actLib |-> << >>,
     actRaw |-> << Action("2", Str("Jump"), Absent), Action("3", Absent, Str("Falling.")) >>,
     lighting |-> << Effect("Soft Natural Light", IntV("5")) >>]

Tables == {FullTable, DefaultTable, OddTable}

SubjectTypes == {Str("Character"), Str("Object"), None}

Subjects == {Str("robot"), Str(" robot"), Str(""), Str("  "), None, IntV("5")}

CharacterCameras == {Str("1 - Fixed Composition"), Str("2"), Str("Still"), Str("4"), None}

ObjectCameras == {Str("1 - Rotate in place (Camera surrounding)"), Str("2 - Orbit"),
                  Str("3"), Str("Blank"), IntV("7")}

Lightings == {NoLighting, Str("Soft Natural Light"), Str("Blank"), None}

Actions == {NoAction, Str("1 - Wave"), Str("Jump"), None}

Emotions == {NoEmotion, Str("Happy"), Str("Sad")}

Arguments ==
    [subject_type : SubjectTypes, custom_subject : Subjects,
     character_camera_type : CharacterCameras, object_camera_type : ObjectCameras,
     lighting_type : Lightings, character_action : Actions, emotional_expression : Emotions]

NoArguments ==
    [subject_type |-> None, custom_subject |-> None, character_camera_type |-> None,
     object_camera_type |-> None, lighting_type |-> None, character_action |-> None,
     emotional_expression |-> None]

NoResult == Outcome("none", "", NoLocals)

PresetPool == {
    Preset("1", Str("Fixed"), Str("a")),
    Preset("2", Str("Orbit"), Str("b")),
    Preset("10", Str("Fixed"), Str("c")),
    Preset("1000", Str("Zoom"), Str("d")),
    Preset("abc", Str("2 - Fixed"), Str("e")),
    Preset("1 - Orbit", Str("1"), Str("f")),
    Preset("a -", Str("10"), Str("g")),
    Scalar(" 2") }

RECURSIVE Collections(_)
Collections(n) ==
    IF n = 0 THEN {<< >>}
    ELSE LET shorter == Collections(n - 1)
         IN  shorter \cup {Append(d, p) : d \in {c \in shorter : Len(c) = n - 1},
                                          p \in PresetPool}

\* dicts of at most MaxKeys presets: the keys of a dict are distinct
PresetCollections == {d \in Collections(MaxKeys) : Cardinality(KeySet(d)) = Len(d)}

Selections ==
    {Str(p.k) : p \in PresetPool}
        \cup {Str("1 - Orbit - x"), Str("2 - Fixed"), Str("1 - Zoom"), Str("a - - x"),
              Str(" 2 - x"), Str("Fixed"), Str("zzz"), Str(""), None, IntV("1")}

NotResolved == [key |-> "", rule |-> -1]

\* the arguments of the repeated calls
RepeatArguments ==
    [subject_type : {Str("Character"), Str("Object")},
     custom_subject : {Str("robot"), Str("")},
     character_camera_type : {Str("1 - Fixed Composition"), None},
     object_camera_type : {Str("2 - Orbit")},
     lighting_type : {NoLighting, Str("Soft Natural Light")},
     character_action : {NoAction, None},
     emotional_expression : {NoEmotion, Str("Happy")}]

\* a table with one camera preset for each listed boilerplate prefix, whose
\* template is that prefix of the generic subject followed by a camera
\* sentence, and one character preset without boilerplate
PresetKeys == << "1", "2", "3", "4", "5", "6", "7", "8", "9", "10", "11", "12", "13", "14" >>

PrefixTable ==
    [FullTable EXCEPT
        !.charCam = Dict(
            [i \in 1..13 |->
                Preset(PresetKeys[i], Str("Shot"),
                       Str(CharacterPrefixes("girl")[i] \o " The camera pulls back."))]
            \o << Preset(PresetKeys[14], Str("Follow"),
                         Str("The girl turns as she walks. The camera follows her.")) >>),
        !.objCam = Dict(
            [i \in 1..3 |->
                Preset(PresetKeys[i], Str("Shot"),
                       Str(ObjectPrefixes("subject")[i]
                             \o " The camera circles the subject's base."))])]

\* calls that select each preset of PrefixTable by its key, with subject
\* texts without and with a subject token inside
CameraArguments ==
    [subject_type : {Str("Character"), Str("Object")},
     custom_subject : {Str("robot"), Str("shepherd"), Str("test subject")},
     character_camera_type : {Str(PresetKeys[i]) : i \in 1..14},
     object_camera_type : {Str(PresetKeys[i]) : i \in 1..3},
     lighting_type : {NoLighting}, character_action : {NoAction},
     emotional_expression : {NoEmotion}]

NotSeen ==
    [kept |-> FALSE, table |-> DefaultTable, args |-> NoArguments, val |-> "",
     calls |-> 0, failed |-> FALSE]

\* templates["parameter_options"]["Character Action"]: missing, or a list
NoOptions == [t |-> "absent", items |-> << >>]

Options(items) == [t |-> "list", items |-> items]

\* wan22_templates.json: missing, unreadable, not JSON, the JSON value
\* null, or a JSON object holding a table
PrimaryFile(state, table, options) == [state |-> state, table |-> table, options |-> options]

\* character_actions.json: absent, not JSON, an object without the key
\* "character action presets", or an object with actions under that key
SecondaryFile(state, actions) == [state |-> state, actions |-> actions]

PrimaryFiles ==
    {PrimaryFile(st, DefaultTable, NoOptions) :
        st \in {"missing", "unreadable", "malformed", "null"}}
        \cup {PrimaryFile("object", T, o) :
                 T \in Tables,
                 o \in {NoOptions, Options(<< "No Specific Action", "9 - Bow" >>)}}

SecondaryFiles ==
    {SecondaryFile(st, << >>) : st \in {"absent", "malformed", "nokey"}}
        \cup {SecondaryFile("object", acts) :
                 acts \in {<< >>,
                           << Action("1", Str("Wave"), Str("Waving both hands.")),
                              Action("2", Str("Jump"), Str("Jumping up.")) >>,
                           << Action("2", Str("Jump"), Absent) >>,
                           << Action("3", Absent, Str("Falling.")) >>}}

NoFiles ==
    [primary |-> PrimaryFile("none", DefaultTable, NoOptions),
     secondary |-> SecondaryFile("none", << >>)]

\* the value load_templates returned: t is "dict" or "None"; required says
\* that the dict holds the key "required" of the hardcoded default
Loaded(t, table, options, required) ==
    [t |-> t, table |-> table, options |-> options, required |-> required]

NotLoaded == Loaded("none", DefaultTable, NoOptions, FALSE)

(***************************************************************************)
(* The node class as the host sees it                                      *)
(***************************************************************************)
\* the names the body of class Wan22PromptGenerator defines
ClassAttributes ==
    {"CATEGORY", "FUNCTION", "RETURN_TYPES", "RETURN_NAMES", "__init__",
     "load_templates", "get_default_templates", "resolve_preset_id",
     "INPUT_TYPES", "generate_preset_prompt"}

\* class attributes by which a node class tells the host not to reuse an
\* output computed for equal inputs
CacheMarkers == {"IS_CHANGED", "NOT_IDEMPOTENT"}

\* FUNCTION = "generate_preset_prompt"
FUNCTION == "generate_preset_prompt"

\* INPUT_TYPES()["required"] and ["optional"], in the order of declaration
RequiredInputs == << "Subject Type", "Custom Subject" >>

OptionalInputs ==
    << "Character Camera Type", "Object Camera Type", "Lighting Type",
       "Character Action", "Emotional Expression" >>

DeclaredInputs == RequiredInputs \o OptionalInputs

\* the signature of generate_preset_prompt after self
ParameterNames ==
    << "subject_type", "custom_subject", "character_camera_type", "object_camera_type",
       "lighting_type", "character_action", "emotional_expression" >>

Range(q) == {q[i] : i \in 1..Len(q)}

\* the defaults of the signature
ParameterDefaults ==
    [subject_type |-> Absent, custom_subject |-> Absent, character_camera_type |-> None,
     object_camera_type |-> None, lighting_type |-> NoLighting,
     character_action |-> NoAction, emotional_expression |-> NoEmotion]

\* positions of the keywords that are no parameter of the function
Unexpected(kw) == {i \in 1..Len(kw) : kw[i].k \notin Range(ParameterNames)}

\* the value a parameter gets from the keywords, or its default
Bound(kw, p) ==
    IF \E i \in 1..Len(kw) : kw[i].k = p
    THEN kw[CHOOSE i \in 1..Len(kw) : kw[i].k = p].v
    ELSE ParameterDefaults[p]

\* Python binds **kw to the signature: a keyword that is no parameter, or a
\* required parameter left without value, is a TypeError at the call
Bind(kw) ==
    IF Unexpected(kw) # {}
    THEN [ok |-> FALSE, a |-> NoArguments,
          msg |-> "Wan22PromptGenerator." \o FUNCTION
                    \o "() got an unexpected keyword argument '"
                    \o kw[CHOOSE i \in Unexpected(kw) : \A j \in Unexpected(kw) : i <= j].k
                    \o "'"]
    ELSE IF \E p \in {"subject_type", "custom_subject"} : Bound(kw, p) = Absent
    THEN [ok |-> FALSE, a |-> NoArguments,
          msg |-> "Wan22PromptGenerator." \o FUNCTION
                    \o "() missing required positional arguments"]
    ELSE [ok |-> TRUE, a |-> [p \in Range(ParameterNames) |-> Bound(kw, p)], msg |-> ""]

\* getattr(obj, FUNCTION)(**kw): the decorated method called by keyword
Call(T, kw) ==
    LET b == Bind(kw)
    IN  IF b.ok THEN log_function_call(generate_preset_prompt(T, b.a))
        ELSE log_function_call(Outcome("raise", b.msg, NoLocals))

(***************************************************************************)
(* load_templates                                                          *)
(***************************************************************************)
\* get_default_templates(): a dict with the single key "required"
get_default_templates == Loaded("dict", DefaultTable, NoOptions, TRUE)

\* some v['name'] or v['description'] of the actions raises KeyError
ActionFieldMissing(actions) ==
    \E i \in 1..Len(actions) :
        actions[i].name.t = "absent" \/ actions[i].description.t = "absent"

\* [f"{k} - {v['name']}" for k, v in actions.items()]
ActionLabels(actions) ==
    [i \in 1..Len(actions) |-> actions[i].k \o " - " \o Format(actions[i].name)]

\* {f"{k} - {v['name']}": {"description": v['description']} ...}
ActionLibrary(actions) ==
    [i \in 1..Len(actions) |->
        Described(ActionLabels(actions)[i], actions[i].description)]

\* json.load of the primary file
Parsed(primary) ==
    IF primary.state = "null" THEN Loaded("None", DefaultTable, NoOptions, FALSE)
    ELSE Loaded("dict", primary.table, primary.options, FALSE)

\* load_templates: every exception of the try block gives the default
load_templates(primary, secondary) ==
    IF primary.state \in {"missing", "unreadable", "malformed"} THEN get_default_templates
    ELSE IF secondary.state \in {"absent", "nokey"} THEN Parsed(primary)
    ELSE IF secondary.state = "malformed" THEN get_default_templates
    ELSE IF ActionFieldMissing(secondary.actions) THEN get_default_templates
    \* "parameter_options" not in None raises TypeError
    ELSE IF primary.state = "null" THEN get_default_templates
    ELSE Loaded("dict",
                [primary.table EXCEPT !.actLib = ActionLibrary(secondary.actions)],
                Options(<< "No Specific Action" >> \o ActionLabels(secondary.actions)),
                FALSE)

(***************************************************************************)
(* State machine                                                           *)
(***************************************************************************)
\* __init__: self.templates = self.load_templates()
Init ==
    /\ templates \in Tables
    /\ pc = "idle"
    /\ args = NoArguments
    /\ result = NoResult
    /\ sel = None
    /\ presets = << >>
    /\ resolved = NotResolved
    /\ seen = NotSeen
    /\ files = NoFiles
    /\ loaded = NotLoaded
    /\ kwargs = << >>

\* a call of generate_preset_prompt through its decorator
Generate ==
    /\ pc = "idle"
    /\ \E a \in Arguments :
        /\ args' = a
        /\ result' = log_function_call(generate_preset_prompt(templates, a))
    /\ pc' = "generated"
    /\ UNCHANGED <<templates, sel, presets, resolved, seen, files, loaded, kwargs>>

\* a call of resolve_preset_id
Resolve ==
    /\ pc = "idle"
    /\ \E s \in Selections, d \in PresetCollections :
        /\ sel' = s
        /\ presets' = d
        /\ resolved' = resolve_preset_id(s, d)
    /\ pc' = "resolved"
    /\ UNCHANGED <<templates, args, result, seen, files, loaded, kwargs>>

\* the caller takes the returned value; the locals of the call are gone
Return ==
    /\ pc # "idle"
    /\ pc' = "idle"
    /\ args' = NoArguments
    /\ result' = NoResult
    /\ sel' = None
    /\ presets' = << >>
    /\ resolved' = NotResolved
    /\ kwargs' = << >>
    /\ UNCHANGED <<templates, seen, files, loaded>>

Next == Generate \/ Resolve \/ Return

Spec == Init /\ [][Next]_vars

\* Repeated calls on one instance.  seen remembers one earlier call: the
\* table the instance held, the arguments, the string returned, how many
\* calls followed it and whether one of those returned an error string.
Invoke_Mutating ==
    /\ pc = "idle"
    /\ seen.kept => seen.calls < MaxCalls
    /\ \E a \in RepeatArguments :
        /\ args' = a
        /\ result' = log_function_call(generate_preset_prompt(templates, a))
    /\ pc' = "generated"
    /\ templates' = [templates EXCEPT !.lighting = << >>]
    /\ seen' = IF seen.kept THEN [seen EXCEPT !.calls = @ + 1] ELSE seen
    /\ UNCHANGED <<sel, presets, resolved, files, loaded, kwargs>>

\* a call of generate_preset_prompt on the instance: self.templates is read,
\* never assigned
Invoke ==
    /\ pc = "idle"
    /\ seen.kept => seen.calls < MaxCalls
    /\ \E a \in RepeatArguments :
        /\ args' = a
        /\ result' = log_function_call(generate_preset_prompt(templates, a))
    /\ pc' = "generated"
    /\ seen' = IF seen.kept THEN [seen EXCEPT !.calls = @ + 1] ELSE seen
    /\ UNCHANGED <<templates, sel, presets, resolved, files, loaded, kwargs>>

\* the caller takes the returned string; the call may be the one remembered
Done ==
    /\ pc = "generated"
    /\ pc' = "idle"
    /\ args' = NoArguments
    /\ result' = NoResult
    /\ seen' \in
         IF seen.kept
         THEN {[seen EXCEPT !.failed = @ \/ StartsWith(result.val, "Error:")]}
         ELSE {seen, [kept |-> TRUE, table |-> templates, args |-> args,
                      val |-> result.val, calls |-> 0, failed |-> FALSE]}
    /\ UNCHANGED <<templates, sel, presets, resolved, files, loaded, kwargs>>

\* a call of load_templates with the two files in some condition
Load ==
    /\ pc = "idle"
    /\ \E p \in PrimaryFiles, q \in SecondaryFiles :
        /\ files' = [primary |-> p, secondary |-> q]
        /\ loaded' = load_templates(p, q)
    /\ pc' = "loaded"
    /\ UNCHANGED <<templates, args, result, sel, presets, resolved, seen, kwargs>>

\* the caller takes the table
Loaded_ ==
    /\ pc = "loaded"
    /\ pc' = "idle"
    /\ files' = NoFiles
    /\ loaded' = NotLoaded
    /\ UNCHANGED <<templates, args, result, sel, presets, resolved, seen, kwargs>>

NextLoad == Load \/ Loaded_

SpecLoad == Init /\ [][NextLoad]_vars

NextRepeat == Invoke \/ Done

\* the instance was constructed over a table file with a preset for each
\* listed prefix
InitCamera ==
    /\ templates = PrefixTable
    /\ pc = "idle"
    /\ args = NoArguments
    /\ result = NoResult
    /\ sel = None
    /\ presets = << >>
    /\ resolved = NotResolved
    /\ seen = NotSeen
    /\ files = NoFiles
    /\ loaded = NotLoaded
    /\ kwargs = << >>

\* one call of the decorated generate_preset_prompt that selects a preset
GenerateCamera ==
    /\ pc = "idle"
    /\ \E a \in CameraArguments :
        /\ args' = a
        /\ result' = log_function_call(generate_preset_prompt(templates, a))
    /\ pc' = "generated"
    /\ UNCHANGED <<templates, sel, presets, resolved, seen, files, loaded, kwargs>>

NextCamera == GenerateCamera \/ Return

SpecCamera == InitCamera /\ [][NextCamera]_vars

\* the dict of inputs the host builds from the declaration for one node:
\* the required inputs, and the optional ones that are connected or set
HostDict(st, su) ==
    << [k |-> "Subject Type", v |-> st],
       [k |-> "Custom Subject", v |-> su],
       [k |-> "Character Camera Type", v |-> DefaultCharacterCamera],
       [k |-> "Object Camera Type", v |-> DefaultObjectCamera],
       [k |-> "Lighting Type", v |-> NoLighting],
       [k |-> "Character Action", v |-> NoAction],
       [k |-> "Emotional Expression", v |-> NoEmotion] >>

KeptInput(given, it) == it.k \in given

HostInputs ==
    {SelectSeq(HostDict(st, su), LAMBDA it : KeptInput(Range(RequiredInputs) \cup S, it)) :
        st \in {Str("Character"), Str("Object")},
        su \in {Str("girl"), Str("robot")},
        S \in SUBSET Range(OptionalInputs)}

\* the host executes the node: it calls the method named by FUNCTION with
\* the declared inputs as keywords
HostInvoke ==
    /\ pc = "idle"
    /\ \E kw \in HostInputs :
        /\ kwargs' = kw
        /\ result' = Call(templates, kw)
    /\ pc' = "invoked"
    /\ UNCHANGED <<templates, args, sel, presets, resolved, seen, files, loaded>>

NextHost == HostInvoke \/ Return

SpecHost == Init /\ [][NextHost]_vars

SpecRepeat == Init /\ [][NextRepeat]_vars

(***************************************************************************)
(* Properties                                                              *)
(***************************************************************************)
\* the collection generate_preset_prompt selects for the call in args
SelectedPresets ==
    IF args.subject_type = Str("Character") THEN templates.charCam.items
    ELSE templates.objCam.items

\* the call in args built prompt_parts and joined them
Succeeded ==
    /\ pc = "generated"
    /\ result.kind = "return"
    /\ result.loc.built
    /\ NonStr(result.loc.prompt_parts) = {}

\* the strings of prompt_parts, in order
Clauses == [i \in 1..Len(result.loc.prompt_parts) |-> result.loc.prompt_parts[i].s]

NonEmpty(c) == c # ""

\* C1, as stated: for every non-empty collection and every label
\* "{id} - {name}" whose id is a key, resolve_preset_id returns id.
C1_IdOfEveryLabel ==
    pc = "resolved" =>
        \A id \in KeySet(presets) :
            (IsStr(sel) /\ StartsWith(sel.s, id \o " - ")) => resolved.key = id

\* C1, amended: for a label "{id} - {name}" that is not itself a key, whose
\* id is a key, is what stands before the first " - " of the label and has
\* no leading or trailing space, resolve_preset_id returns id whatever name
\* is, also when the whole label is the name of another preset.
C1_IdPrefixBeforeName ==
    pc = "resolved" =>
        \A id \in KeySet(presets) :
            ( /\ IsStr(sel)
              /\ StartsWith(sel.s, id \o " - ")
              /\ FindFrom(sel.s, " - ", 1) = Len(id) + 1
              /\ Strip(id) = id
              /\ ~HasKey(presets, sel.s) ) => resolved.key = id

\* the label "2 - Fixed" is the name of preset "abc" and resolves to "2"
C1_Witness ==
    /\ pc = "resolved"
    /\ sel = Str("2 - Fixed")
    /\ Keys(presets) = << "abc", "2" >>
    /\ presets[1].name = sel
    /\ resolved.key = "2"

\* C2: resolving a key of the collection returns that key, whatever the
\* other keys and names are.
C2_ExactKeyWins ==
    (pc = "resolved" /\ IsStr(sel) /\ HasKey(presets, sel.s)) => resolved.key = sel.s

\* the key "1 - Orbit" carries the id prefix "1", itself a key, and is the
\* result
C2_Witness ==
    /\ pc = "resolved"
    /\ sel = Str("1 - Orbit")
    /\ Keys(presets) = << "1", "1 - Orbit" >>
    /\ resolved.key = "1 - Orbit"

\* k is not after j in the order of the claim: numeric keys by value, every
\* other key after all numeric keys
NotAfter(k, j) ==
    IF IsDigit(k) THEN (IsDigit(j) => ToInt(k) <= ToInt(j)) ELSE ~IsDigit(j)

\* the selection matches no key, no id prefix and no preset name
NoMatch ==
    /\ pc = "resolved"
    /\ IsStr(sel)
    /\ Len(presets) > 0
    /\ ~HasKey(presets, sel.s)
    /\ ~(Contains(sel.s, " - ") /\ HasKey(presets, Strip(SplitHead(sel.s))))
    /\ NameMatches(presets, sel.s) = {}

\* C3: when nothing matches, the result is the smallest key under the order
\* that compares numeric keys as integers and puts every other key after
\* all numeric keys.
C3_FallbackSmallest ==
    NoMatch =>
        /\ HasKey(presets, resolved.key)
        /\ \A j \in KeySet(presets) : NotAfter(resolved.key, j)

C4Template ==
    "Subject is located in the center of the frame, with a complete and clear structure, and a stable base touching the ground. The camera slowly orbits the subject."

\* the call of claim C4 got as far as the camera clause
C4Case ==
    /\ pc = "generated"
    /\ args.subject_type = Str("Object")
    /\ args.custom_subject = Str("robot")
    /\ result.loc.built
    /\ result.loc.camera_template = Str(C4Template)

C4Clause ==
    "Subject is located in the center of the frame, with a complete and clear structure, and a stable base touching the ground. The camera slowly orbits the robot."

C5_SingleSpaces ==
    Succeeded => result.val = Join(SelectSeq(Clauses, NonEmpty))

WithoutLighting(T) == [T EXCEPT !.lighting = << >>]

WithoutEmotion(T) == [T EXCEPT !.emoLib = << >>, !.emoFlat = << >>]

WithoutAction(T) == [T EXCEPT !.actLib = << >>, !.actRaw = << >>]

C7_EmptySubject ==
    (pc = "generated" /\ IsStr(args.custom_subject) /\ Strip(args.custom_subject.s) = "")
        => /\ result.kind = "return"
           /\ StartsWith(result.val, "Error:")
           /\ Contains(result.val, "subject")
           /\ ~result.loc.built

\* a subject of two spaces, with a table and selections that would
\* otherwise give a prompt
C7_Witness ==
    /\ pc = "generated"
    /\ args.custom_subject = Str("  ")
    /\ args.subject_type = Str("Character")
    /\ args.character_camera_type = Str("2")
    /\ templates = FullTable
    /\ result.val =
         "Error: An error occurred while generating the WAN2.2 prompt: Parameter custom_subject cannot be an empty string"

\* the key has no template in the collection: no entry, no field, or ""
NoTemplate(d, key) ==
    \/ ~HasKey(d, key)
    \/ /\ Item(d, key).dict
       /\ Item(d, key).template \in {Absent, Str("")}

\* C8: when the key resolve_preset_id returned has no template, the result
\* is an error string naming the key and listing the keys of the selected
\* collection, and no prompt is built.
C8_TemplateNotFound ==
    ( /\ pc = "generated"
      /\ result.loc.reached
      /\ NoTemplate(SelectedPresets, result.loc.preset_number) )
        => /\ result.kind = "return"
           /\ StartsWith(result.val, "Error:")
           /\ Contains(result.val, "camera type " \o result.loc.preset_number \o " ")
           /\ Contains(result.val, ReprList(Keys(SelectedPresets)))
           /\ ~result.loc.built

\* the selection "Blank" resolves by name to key "4", whose template is ""
C8_Witness ==
    /\ pc = "generated"
    /\ args.subject_type = Str("Object")
    /\ args.object_camera_type = Str("Blank")
    /\ result.loc.preset_number = "4"
    /\ result.loc.camera_template = Str("")
    /\ result.val =
         "Error: Template for camera type 4 not found. Available presets: ['1', '2', '3', '4']"

\* C9: every call returns a string, and every result that is not a joined
\* prompt begins with "Error:".
C9_NoExceptionEscapes ==
    pc = "generated" =>
        /\ result.kind = "return"
        /\ ~Succeeded => StartsWith(result.val, "Error:")

\* a subject that is a number makes str.replace raise; the call returns
\* the error string
C9_Witness ==
    /\ pc = "generated"
    /\ args.custom_subject = IntV("5")
    /\ result.loc.reached
    /\ result.kind = "return"
    /\ result.val =
         "Error: An error occurred while generating the WAN2.2 prompt: replace() argument 2 must be str, not int"

\* the subject-token substitution of the camera template, applied to text
Substituted(text) ==
    IF args.subject_type = Str("Character")
    THEN CharacterSubstitute(text, args.custom_subject.s)
    ELSE ObjectSubstitute(text, args.custom_subject.s)

\* a prompt was built with a lighting selection that is not the sentinel
\* and is an entry of the effects map
C10Case ==
    /\ Succeeded
    /\ args.lighting_type # NoLighting
    /\ In(args.lighting_type, templates.lighting)

OtherCamera(x) ==
    IF args.subject_type = Str("Character") THEN [args EXCEPT !.object_camera_type = x]
    ELSE [args EXCEPT !.character_camera_type = x]

\* templates with the camera collection of the other subject type set to c
OtherPresets(c) ==
    IF args.subject_type = Str("Character") THEN [templates EXCEPT !.objCam = c]
    ELSE [templates EXCEPT !.charCam = c]

\* C11: for subject type Character the result is the same for every object
\* camera selection and every object camera collection, and for subject
\* type Object the same for every character camera selection and collection.
C11_OwnCameraOnly ==
    (pc = "generated" /\ args.subject_type \in {Str("Character"), Str("Object")}) =>
        /\ \A x \in CharacterCameras \cup ObjectCameras :
              generate_preset_prompt(templates, OtherCamera(x)).val = result.val
        /\ \A c \in {CharacterCameraPresets, ObjectCameraPresets, OddCameraPresets,
                     NoSection, NullSection} :
              generate_preset_prompt(OtherPresets(c), args).val = result.val

\* a Character call without a character camera selection and with an object
\* camera selection that names a character preset: the default "1" is used
C11_Witness ==
    /\ Succeeded
    /\ args.subject_type = Str("Character")
    /\ args.character_camera_type = None
    /\ args.object_camera_type = Str("3")
    /\ result.loc.preset_number = "1"
    /\ HasKey(templates.charCam.items, "3")
    /\ HasKey(templates.objCam.items, "3")

\* C12: the table of the instance is the one it held at the remembered
\* call, and a call with the arguments of the remembered call returns the
\* same string, whatever calls were made in between.
C12_SameTableSameResult ==
    seen.kept =>
        /\ templates = seen.table
        /\ (pc = "generated" /\ args = seen.args) => result.val = seen.val

\* the second call after the remembered one repeats its arguments, the call
\* in between returned an error string, and the prompt is the same
C12_Witness ==
    /\ Succeeded
    /\ seen.kept
    /\ args = seen.args
    /\ seen.calls = 2
    /\ seen.failed
    /\ args.lighting_type = Str("Soft Natural Light")
    /\ result.val = seen.val

\* C13: load_templates never returns a null table; a missing, unreadable
\* or malformed primary file gives the hardcoded default; a readable primary
\* file without the secondary file gives the primary file's table with
\* nothing merged.
C13_LoadNeverNull ==
    pc = "loaded" =>
        /\ loaded.t = "dict"
        /\ files.primary.state \in {"missing", "unreadable", "malformed"} =>
              loaded = get_default_templates
        /\ (files.primary.state = "object" /\ files.secondary.state = "absent") =>
              loaded = Loaded("dict", files.primary.table, files.primary.options, FALSE)

\* C14: the node class carries a marker that makes the host recompute the
\* output on every invocation instead of reusing it for equal inputs.
C14_NonCacheableMarker ==
    pc = "invoked" => ClassAttributes \cap CacheMarkers # {}

\* C16: every declared input name is a parameter name of the function named
\* by FUNCTION, so a host invocation by the declared names returns a string.
C16_DeclaredNamesBind ==
    pc = "invoked" =>
        /\ FUNCTION \in ClassAttributes
        /\ Range(DeclaredInputs) \subseteq Range(ParameterNames)
        /\ Unexpected(kwargs) = {}
        /\ result.kind = "return"

\* the generic-subject tokens of the subject type and what stands for each
TokenRules ==
    LET cs == args.custom_subject.s
    IN  IF args.subject_type = Str("Character")
        THEN << [old |-> "girl", new |-> cs], [old |-> "she", new |-> cs],
                [old |-> "her", new |-> cs \o "'s"], [old |-> "character", new |-> cs],
                [old |-> "subject", new |-> cs] >>
        ELSE << [old |-> "subject", new |-> cs] >>

\* text with every token of rules replaced once, left to right, the
\* inserted text being left as it is
RECURSIVE OnePassFrom(_, _, _)
OnePassFrom(s, rules, i) ==
    LET at(r) == FindFrom(s, rules[r].old, i)
        hits == {r \in 1..Len(rules) : at(r) > 0}
    IN  IF hits = {} THEN From(s, i)
        ELSE LET r == CHOOSE r \in hits :
                        \A q \in hits : at(r) < at(q) \/ (at(r) = at(q) /\ r <= q)
             IN  SubSeq(s, i, at(r) - 1) \o rules[r].new
                     \o OnePassFrom(s, rules, at(r) + Len(rules[r].old))

\* the listed prefixes of the subject type, for the subject text
ListedPrefixes ==
    IF args.subject_type = Str("Character")
    THEN CharacterPrefixes(args.custom_subject.s)
    ELSE ObjectPrefixes(args.custom_subject.s)

\* a prompt was built from a camera template and a subject text
CameraCase ==
    /\ Succeeded
    /\ IsStr(args.custom_subject)
    /\ IsStr(result.loc.camera_template)

\* C15: every subject token of the template is replaced exactly once by the
\* subject text, and the inserted text is not altered by later replacement
\* steps, also when the subject text contains a token.
C15_InsertedVerbatim ==
    CameraCase =>
        result.loc.camera_description =
            RemovePrefix(OnePassFrom(result.loc.camera_template.s, TokenRules, 1),
                         ListedPrefixes)

\* the listed prefixes the substituted template begins with
Matching ==
    {i \in 1..Len(ListedPrefixes) :
        StartsWith(Substituted(result.loc.camera_template.s), ListedPrefixes[i])}

\* C17: no listed prefix is shadowed by an earlier one: none has an earlier
\* entry as a leading part, and a substituted template that begins with a
\* listed prefix P, and with no longer one, has P itself stripped.
C17_NoPrefixShadowed ==
    CameraCase =>
        /\ \A i \in 1..Len(ListedPrefixes) : \A j \in 1..(i - 1) :
              ~StartsWith(ListedPrefixes[i], ListedPrefixes[j])
        /\ \A i \in Matching :
              (\A j \in Matching : Len(ListedPrefixes[j]) <= Len(ListedPrefixes[i])) =>
                  result.loc.camera_description =
                      Strip(From(Substituted(result.loc.camera_template.s),
                                 Len(ListedPrefixes[i]) + 1))

====
